---- MODULE Spec2Model ----
(***************************************************************************)
(* Model of organize_downloads.py: the DownloadsOrganizer class.           *)
(*                                                                         *)
(* A Python str is modelled as the sequence of its Unicode code points,    *)
(* so that lower(), Path.suffix, Path.stem, startswith('.'), the           *)
(* f"{stem}_{counter}{suffix}" formatting and the length of a name in      *)
(* bytes are computed character by character; the text of every literal    *)
(* is given in a comment.  A path is a sequence of names relative to       *)
(* downloads_path;                                                         *)
(* << >> is downloads_path itself.  The filesystem is a function from the  *)
(* paths that exist to their node (a directory, or a regular file with     *)
(* its content).                                                           *)
(***************************************************************************)
EXTENDS Integers, Sequences, FiniteSets, TLC

VARIABLES
  fs,             \* the filesystem below (and including) downloads_path
  rootName,       \* downloads_path.name
  calls,          \* the calls that may change the filesystem, the current one last
  pc,             \* "idle", "loop" (inside the for loop), "returned"
  listing,        \* the names iterdir() gave the current call
  todo,           \* the regular non-hidden files of the listing still to come
  files_moved,    \* local files_moved of the current call
  files_skipped,  \* local files_skipped of the current call
  attempts,       \* shutil.move calls made by the current call
  outcome,        \* how the current call ended, "none" while it runs
  decision,       \* what the last loop iteration did
  fs0,            \* the filesystem when the current call began
  qExt,           \* argument of the last get_file_category query
  qCat,           \* its result (<< >> before the call)
  file_count      \* file_count of the last list_files_by_category call

vars == << fs, rootName, calls, pc, listing, todo, files_moved,
           files_skipped, attempts, outcome, decision, fs0, qExt, qCat,
           file_count >>

(***************************************************************************)
(* Strings                                                                 *)
(***************************************************************************)
Range(s) == { s[i] : i \in 1..Len(s) }

\* ord('.')
full_stop == 46

\* ord('_')
low_line == 95

\* ord('0')
digit_zero == 48

\* the code points beyond ASCII whose lowercase is another single code
\* point, as << first, last, step, offset >>: first, first + step, ..., last
\* each lower to themselves + offset (Unicode 14.0, the data of Python 3.11)
LowerRanges ==
  { <<192, 214, 1, 32>>, <<216, 222, 1, 32>>, <<256, 302,
    2, 1>>, <<306, 310, 2, 1>>, <<313, 327, 2, 1>>, <<330, 374, 2, 1>>, <<376,
    376, 1, -121>>, <<377, 381, 2, 1>>, <<385, 385, 1, 210>>, <<386, 388, 2,
    1>>, <<390, 390, 1, 206>>, <<391, 391, 1, 1>>, <<393, 394, 1, 205>>,
    <<395, 395, 1, 1>>, <<398, 398, 1, 79>>, <<399, 399, 1, 202>>, <<400, 400,
    1, 203>>, <<401, 401, 1, 1>>, <<403, 403, 1, 205>>, <<404, 404, 1, 207>>,
    <<406, 406, 1, 211>>, <<407, 407, 1, 209>>, <<408, 408, 1, 1>>, <<412,
    412, 1, 211>>, <<413, 413, 1, 213>>, <<415, 415, 1, 214>>, <<416, 420, 2,
    1>>, <<422, 422, 1, 218>>, <<423, 423, 1, 1>>, <<425, 425, 1, 218>>,
    <<428, 428, 1, 1>>, <<430, 430, 1, 218>>, <<431, 431, 1, 1>>, <<433, 434,
    1, 217>>, <<435, 437, 2, 1>>, <<439, 439, 1, 219>>, <<440, 440, 1, 1>>,
    <<444, 444, 1, 1>>, <<452, 452, 1, 2>>, <<453, 453, 1, 1>>, <<455, 455, 1,
    2>>, <<456, 456, 1, 1>>, <<458, 458, 1, 2>>, <<459, 475, 2, 1>>, <<478,
    494, 2, 1>>, <<497, 497, 1, 2>>, <<498, 500, 2, 1>>, <<502, 502, 1, -97>>,
    <<503, 503, 1, -56>>, <<504, 542, 2, 1>>, <<544, 544, 1, -130>>, <<546,
    562, 2, 1>>, <<570, 570, 1, 10795>>, <<571, 571, 1, 1>>, <<573, 573, 1,
    -163>>, <<574, 574, 1, 10792>>, <<577, 577, 1, 1>>, <<579, 579, 1, -195>>,
    <<580, 580, 1, 69>>, <<581, 581, 1, 71>>, <<582, 590, 2, 1>>, <<880, 882,
    2, 1>>, <<886, 886, 1, 1>>, <<895, 895, 1, 116>>, <<902, 902, 1, 38>>,
    <<904, 906, 1, 37>>, <<908, 908, 1, 64>>, <<910, 911, 1, 63>>, <<913, 929,
    1, 32>>, <<932, 939, 1, 32>>, <<975, 975, 1, 8>>, <<984, 1006, 2, 1>>,
    <<1012, 1012, 1, -60>>, <<1015, 1015, 1, 1>>, <<1017, 1017, 1, -7>>,
    <<1018, 1018, 1, 1>>, <<1021, 1023, 1, -130>>, <<1024, 1039, 1, 80>>,
    <<1040, 1071, 1, 32>>, <<1120, 1152, 2, 1>>, <<1162, 1214, 2, 1>>, <<1216,
    1216, 1, 15>>, <<1217, 1229, 2, 1>>, <<1232, 1326, 2, 1>>, <<1329, 1366,
    1, 48>>, <<4256, 4293, 1, 7264>>, <<4295, 4295, 1, 7264>>, <<4301, 4301,
    1, 7264>>, <<5024, 5103, 1, 38864>>, <<5104, 5109, 1, 8>>, <<7312, 7354,
    1, -3008>>, <<7357, 7359, 1, -3008>>, <<7680, 7828, 2, 1>>, <<7838, 7838,
    1, -7615>>, <<7840, 7934, 2, 1>>, <<7944, 7951, 1, -8>>, <<7960, 7965, 1,
    -8>>, <<7976, 7983, 1, -8>>, <<7992, 7999, 1, -8>>, <<8008, 8013, 1, -8>>,
    <<8025, 8031, 2, -8>>, <<8040, 8047, 1, -8>>, <<8072, 8079, 1, -8>>,
    <<8088, 8095, 1, -8>>, <<8104, 8111, 1, -8>>, <<8120, 8121, 1, -8>>,
    <<8122, 8123, 1, -74>>, <<8124, 8124, 1, -9>>, <<8136, 8139, 1, -86>>,
    <<8140, 8140, 1, -9>>, <<8152, 8153, 1, -8>>, <<8154, 8155, 1, -100>>,
    <<8168, 8169, 1, -8>>, <<8170, 8171, 1, -112>>, <<8172, 8172, 1, -7>>,
    <<8184, 8185, 1, -128>>, <<8186, 8187, 1, -126>>, <<8188, 8188, 1, -9>>,
    <<8486, 8486, 1, -7517>>, <<8490, 8490, 1, -8383>>, <<8491, 8491, 1,
    -8262>>, <<8498, 8498, 1, 28>>, <<8544, 8559, 1, 16>>, <<8579, 8579, 1,
    1>>, <<9398, 9423, 1, 26>>, <<11264, 11311, 1, 48>>, <<11360, 11360, 1,
    1>>, <<11362, 11362, 1, -10743>>, <<11363, 11363, 1, -3814>>, <<11364,
    11364, 1, -10727>>, <<11367, 11371, 2, 1>>, <<11373, 11373, 1, -10780>>,
    <<11374, 11374, 1, -10749>>, <<11375, 11375, 1, -10783>>, <<11376, 11376,
    1, -10782>>, <<11378, 11378, 1, 1>>, <<11381, 11381, 1, 1>>, <<11390,
    11391, 1, -10815>>, <<11392, 11490, 2, 1>>, <<11499, 11501, 2, 1>>,
    <<11506, 11506, 1, 1>>, <<42560, 42604, 2, 1>>, <<42624, 42650, 2, 1>>,
    <<42786, 42798, 2, 1>>, <<42802, 42862, 2, 1>>, <<42873, 42875, 2, 1>>,
    <<42877, 42877, 1, -35332>>, <<42878, 42886, 2, 1>>, <<42891, 42891, 1,
    1>>, <<42893, 42893, 1, -42280>>, <<42896, 42898, 2, 1>>, <<42902, 42920,
    2, 1>>, <<42922, 42922, 1, -42308>>, <<42923, 42923, 1, -42319>>, <<42924,
    42924, 1, -42315>>, <<42925, 42925, 1, -42305>>, <<42926, 42926, 1,
    -42308>>, <<42928, 42928, 1, -42258>>, <<42929, 42929, 1, -42282>>,
    <<42930, 42930, 1, -42261>>, <<42931, 42931, 1, 928>>, <<42932, 42946, 2,
    1>>, <<42948, 42948, 1, -48>>, <<42949, 42949, 1, -42307>>, <<42950,
    42950, 1, -35384>>, <<42951, 42953, 2, 1>>, <<42960, 42960, 1, 1>>,
    <<42966, 42968, 2, 1>>, <<42997, 42997, 1, 1>>, <<65313, 65338, 1, 32>>,
    <<66560, 66599, 1, 40>>, <<66736, 66771, 1, 40>>, <<66928, 66938, 1, 39>>,
    <<66940, 66954, 1, 39>>, <<66956, 66962, 1, 39>>, <<66964, 66965, 1, 39>>,
    <<68736, 68786, 1, 64>>, <<71840, 71871, 1, 32>>, <<93760, 93791, 1, 32>>,
    <<125184, 125217, 1, 34>> }

\* the code points with the property Case_Ignorable, as << first, last >>
CaseIgnorableRanges ==
  { <<39, 39>>, <<46, 46>>, <<58, 58>>, <<94, 94>>, <<96, 96>>, <<168, 168>>,
    <<173, 173>>, <<175, 175>>, <<180, 180>>, <<183, 184>>, <<688, 879>>,
    <<884, 885>>, <<890, 890>>, <<900, 901>>, <<903, 903>>, <<1155, 1161>>,
    <<1369, 1369>>, <<1375, 1375>>, <<1425, 1469>>, <<1471, 1471>>, <<1473,
    1474>>, <<1476, 1477>>, <<1479, 1479>>, <<1524, 1524>>, <<1536, 1541>>,
    <<1552, 1562>>, <<1564, 1564>>, <<1600, 1600>>, <<1611, 1631>>, <<1648,
    1648>>, <<1750, 1757>>, <<1759, 1768>>, <<1770, 1773>>, <<1807, 1807>>,
    <<1809, 1809>>, <<1840, 1866>>, <<1958, 1968>>, <<2027, 2037>>, <<2042,
    2042>>, <<2045, 2045>>, <<2070, 2093>>, <<2137, 2139>>, <<2184, 2184>>,
    <<2192, 2193>>, <<2200, 2207>>, <<2249, 2306>>, <<2362, 2362>>, <<2364,
    2364>>, <<2369, 2376>>, <<2381, 2381>>, <<2385, 2391>>, <<2402, 2403>>,
    <<2417, 2417>>, <<2433, 2433>>, <<2492, 2492>>, <<2497, 2500>>, <<2509,
    2509>>, <<2530, 2531>>, <<2558, 2558>>, <<2561, 2562>>, <<2620, 2620>>,
    <<2625, 2626>>, <<2631, 2632>>, <<2635, 2637>>, <<2641, 2641>>, <<2672,
    2673>>, <<2677, 2677>>, <<2689, 2690>>, <<2748, 2748>>, <<2753, 2757>>,
    <<2759, 2760>>, <<2765, 2765>>, <<2786, 2787>>, <<2810, 2815>>, <<2817,
    2817>>, <<2876, 2876>>, <<2879, 2879>>, <<2881, 2884>>, <<2893, 2893>>,
    <<2901, 2902>>, <<2914, 2915>>, <<2946, 2946>>, <<3008, 3008>>, <<3021,
    3021>>, <<3072, 3072>>, <<3076, 3076>>, <<3132, 3132>>, <<3134, 3136>>,
    <<3142, 3144>>, <<3146, 3149>>, <<3157, 3158>>, <<3170, 3171>>, <<3201,
    3201>>, <<3260, 3260>>, <<3263, 3263>>, <<3270, 3270>>, <<3276, 3277>>,
    <<3298, 3299>>, <<3328, 3329>>, <<3387, 3388>>, <<3393, 3396>>, <<3405,
    3405>>, <<3426, 3427>>, <<3457, 3457>>, <<3530, 3530>>, <<3538, 3540>>,
    <<3542, 3542>>, <<3633, 3633>>, <<3636, 3642>>, <<3654, 3662>>, <<3761,
    3761>>, <<3764, 3772>>, <<3782, 3782>>, <<3784, 3789>>, <<3864, 3865>>,
    <<3893, 3893>>, <<3895, 3895>>, <<3897, 3897>>, <<3953, 3966>>, <<3968,
    3972>>, <<3974, 3975>>, <<3981, 3991>>, <<3993, 4028>>, <<4038, 4038>>,
    <<4141, 4144>>, <<4146, 4151>>, <<4153, 4154>>, <<4157, 4158>>, <<4184,
    4185>>, <<4190, 4192>>, <<4209, 4212>>, <<4226, 4226>>, <<4229, 4230>>,
    <<4237, 4237>>, <<4253, 4253>>, <<4348, 4348>>, <<4957, 4959>>, <<5906,
    5908>>, <<5938, 5939>>, <<5970, 5971>>, <<6002, 6003>>, <<6068, 6069>>,
    <<6071, 6077>>, <<6086, 6086>>, <<6089, 6099>>, <<6103, 6103>>, <<6109,
    6109>>, <<6155, 6159>>, <<6211, 6211>>, <<6277, 6278>>, <<6313, 6313>>,
    <<6432, 6434>>, <<6439, 6440>>, <<6450, 6450>>, <<6457, 6459>>, <<6679,
    6680>>, <<6683, 6683>>, <<6742, 6742>>, <<6744, 6750>>, <<6752, 6752>>,
    <<6754, 6754>>, <<6757, 6764>>, <<6771, 6780>>, <<6783, 6783>>, <<6823,
    6823>>, <<6832, 6862>>, <<6912, 6915>>, <<6964, 6964>>, <<6966, 6970>>,
    <<6972, 6972>>, <<6978, 6978>>, <<7019, 7027>>, <<7040, 7041>>, <<7074,
    7077>>, <<7080, 7081>>, <<7083, 7085>>, <<7142, 7142>>, <<7144, 7145>>,
    <<7149, 7149>>, <<7151, 7153>>, <<7212, 7219>>, <<7222, 7223>>, <<7288,
    7293>>, <<7376, 7378>>, <<7380, 7392>>, <<7394, 7400>>, <<7405, 7405>>,
    <<7412, 7412>>, <<7416, 7417>>, <<7468, 7530>>, <<7544, 7544>>, <<7579,
    7679>>, <<8125, 8125>>, <<8127, 8129>>, <<8141, 8143>>, <<8157, 8159>>,
    <<8173, 8175>>, <<8189, 8190>>, <<8203, 8207>>, <<8216, 8217>>, <<8228,
    8228>>, <<8231, 8231>>, <<8234, 8238>>, <<8288, 8292>>, <<8294, 8303>>,
    <<8305, 8305>>, <<8319, 8319>>, <<8336, 8348>>, <<8400, 8432>>, <<11388,
    11389>>, <<11503, 11505>>, <<11631, 11631>>, <<11647, 11647>>, <<11744,
    11775>>, <<11823, 11823>>, <<12293, 12293>>, <<12330, 12333>>, <<12337,
    12341>>, <<12347, 12347>>, <<12441, 12446>>, <<12540, 12542>>, <<40981,
    40981>>, <<42232, 42237>>, <<42508, 42508>>, <<42607, 42610>>, <<42612,
    42621>>, <<42623, 42623>>, <<42652, 42655>>, <<42736, 42737>>, <<42752,
    42785>>, <<42864, 42864>>, <<42888, 42890>>, <<42994, 42996>>, <<43000,
    43001>>, <<43010, 43010>>, <<43014, 43014>>, <<43019, 43019>>, <<43045,
    43046>>, <<43052, 43052>>, <<43204, 43205>>, <<43232, 43249>>, <<43263,
    43263>>, <<43302, 43309>>, <<43335, 43345>>, <<43392, 43394>>, <<43443,
    43443>>, <<43446, 43449>>, <<43452, 43453>>, <<43471, 43471>>, <<43493,
    43494>>, <<43561, 43566>>, <<43569, 43570>>, <<43573, 43574>>, <<43587,
    43587>>, <<43596, 43596>>, <<43632, 43632>>, <<43644, 43644>>, <<43696,
    43696>>, <<43698, 43700>>, <<43703, 43704>>, <<43710, 43711>>, <<43713,
    43713>>, <<43741, 43741>>, <<43756, 43757>>, <<43763, 43764>>, <<43766,
    43766>>, <<43867, 43871>>, <<43881, 43883>>, <<44005, 44005>>, <<44008,
    44008>>, <<44013, 44013>>, <<64286, 64286>>, <<64434, 64450>>, <<65024,
    65039>>, <<65043, 65043>>, <<65056, 65071>>, <<65106, 65106>>, <<65109,
    65109>>, <<65279, 65279>>, <<65287, 65287>>, <<65294, 65294>>, <<65306,
    65306>>, <<65342, 65342>>, <<65344, 65344>>, <<65392, 65392>>, <<65438,
    65439>>, <<65507, 65507>>, <<65529, 65531>>, <<66045, 66045>>, <<66272,
    66272>>, <<66422, 66426>>, <<67456, 67461>>, <<67463, 67504>>, <<67506,
    67514>>, <<68097, 68099>>, <<68101, 68102>>, <<68108, 68111>>, <<68152,
    68154>>, <<68159, 68159>>, <<68325, 68326>>, <<68900, 68903>>, <<69291,
    69292>>, <<69446, 69456>>, <<69506, 69509>>, <<69633, 69633>>, <<69688,
    69702>>, <<69744, 69744>>, <<69747, 69748>>, <<69759, 69761>>, <<69811,
    69814>>, <<69817, 69818>>, <<69821, 69821>>, <<69826, 69826>>, <<69837,
    69837>>, <<69888, 69890>>, <<69927, 69931>>, <<69933, 69940>>, <<70003,
    70003>>, <<70016, 70017>>, <<70070, 70078>>, <<70089, 70092>>, <<70095,
    70095>>, <<70191, 70193>>, <<70196, 70196>>, <<70198, 70199>>, <<70206,
    70206>>, <<70367, 70367>>, <<70371, 70378>>, <<70400, 70401>>, <<70459,
    70460>>, <<70464, 70464>>, <<70502, 70508>>, <<70512, 70516>>, <<70712,
    70719>>, <<70722, 70724>>, <<70726, 70726>>, <<70750, 70750>>, <<70835,
    70840>>, <<70842, 70842>>, <<70847, 70848>>, <<70850, 70851>>, <<71090,
    71093>>, <<71100, 71101>>, <<71103, 71104>>, <<71132, 71133>>, <<71219,
    71226>>, <<71229, 71229>>, <<71231, 71232>>, <<71339, 71339>>, <<71341,
    71341>>, <<71344, 71349>>, <<71351, 71351>>, <<71453, 71455>>, <<71458,
    71461>>, <<71463, 71467>>, <<71727, 71735>>, <<71737, 71738>>, <<71995,
    71996>>, <<71998, 71998>>, <<72003, 72003>>, <<72148, 72151>>, <<72154,
    72155>>, <<72160, 72160>>, <<72193, 72202>>, <<72243, 72248>>, <<72251,
    72254>>, <<72263, 72263>>, <<72273, 72278>>, <<72281, 72283>>, <<72330,
    72342>>, <<72344, 72345>>, <<72752, 72758>>, <<72760, 72765>>, <<72767,
    72767>>, <<72850, 72871>>, <<72874, 72880>>, <<72882, 72883>>, <<72885,
    72886>>, <<73009, 73014>>, <<73018, 73018>>, <<73020, 73021>>, <<73023,
    73029>>, <<73031, 73031>>, <<73104, 73105>>, <<73109, 73109>>, <<73111,
    73111>>, <<73459, 73460>>, <<78896, 78904>>, <<92912, 92916>>, <<92976,
    92982>>, <<92992, 92995>>, <<94031, 94031>>, <<94095, 94111>>, <<94176,
    94177>>, <<94179, 94180>>, <<110576, 110579>>, <<110581, 110587>>,
    <<110589, 110590>>, <<113821, 113822>>, <<113824, 113827>>, <<118528,
    118573>>, <<118576, 118598>>, <<119143, 119145>>, <<119155, 119170>>,
    <<119173, 119179>>, <<119210, 119213>>, <<119362, 119364>>, <<121344,
    121398>>, <<121403, 121452>>, <<121461, 121461>>, <<121476, 121476>>,
    <<121499, 121503>>, <<121505, 121519>>, <<122880, 122886>>, <<122888,
    122904>>, <<122907, 122913>>, <<122915, 122916>>, <<122918, 122922>>,
    <<123184, 123197>>, <<123566, 123566>>, <<123628, 123631>>, <<125136,
    125142>>, <<125252, 125259>>, <<127995, 127999>>, <<917505, 917505>>,
    <<917536, 917631>>, <<917760, 917999>> }

\* the code points with the property Cased and without Case_Ignorable, as
\* << first, last >>
CasedRanges ==
  { <<65, 90>>, <<97, 122>>, <<170, 170>>, <<181, 181>>, <<186, 186>>, <<192,
    214>>, <<216, 246>>, <<248, 442>>, <<444, 447>>, <<452, 659>>, <<661,
    687>>, <<880, 883>>, <<886, 887>>, <<891, 893>>, <<895, 895>>, <<902,
    902>>, <<904, 906>>, <<908, 908>>, <<910, 929>>, <<931, 1013>>, <<1015,
    1153>>, <<1162, 1327>>, <<1329, 1366>>, <<1376, 1416>>, <<4256, 4293>>,
    <<4295, 4295>>, <<4301, 4301>>, <<4304, 4346>>, <<4349, 4351>>, <<5024,
    5109>>, <<5112, 5117>>, <<7296, 7304>>, <<7312, 7354>>, <<7357, 7359>>,
    <<7424, 7467>>, <<7531, 7543>>, <<7545, 7578>>, <<7680, 7957>>, <<7960,
    7965>>, <<7968, 8005>>, <<8008, 8013>>, <<8016, 8023>>, <<8025, 8025>>,
    <<8027, 8027>>, <<8029, 8029>>, <<8031, 8061>>, <<8064, 8116>>, <<8118,
    8124>>, <<8126, 8126>>, <<8130, 8132>>, <<8134, 8140>>, <<8144, 8147>>,
    <<8150, 8155>>, <<8160, 8172>>, <<8178, 8180>>, <<8182, 8188>>, <<8450,
    8450>>, <<8455, 8455>>, <<8458, 8467>>, <<8469, 8469>>, <<8473, 8477>>,
    <<8484, 8484>>, <<8486, 8486>>, <<8488, 8488>>, <<8490, 8493>>, <<8495,
    8500>>, <<8505, 8505>>, <<8508, 8511>>, <<8517, 8521>>, <<8526, 8526>>,
    <<8544, 8575>>, <<8579, 8580>>, <<9398, 9449>>, <<11264, 11387>>, <<11390,
    11492>>, <<11499, 11502>>, <<11506, 11507>>, <<11520, 11557>>, <<11559,
    11559>>, <<11565, 11565>>, <<42560, 42605>>, <<42624, 42651>>, <<42786,
    42863>>, <<42865, 42887>>, <<42891, 42894>>, <<42896, 42954>>, <<42960,
    42961>>, <<42963, 42963>>, <<42965, 42969>>, <<42997, 42998>>, <<43002,
    43002>>, <<43824, 43866>>, <<43872, 43880>>, <<43888, 43967>>, <<64256,
    64262>>, <<64275, 64279>>, <<65313, 65338>>, <<65345, 65370>>, <<66560,
    66639>>, <<66736, 66771>>, <<66776, 66811>>, <<66928, 66938>>, <<66940,
    66954>>, <<66956, 66962>>, <<66964, 66965>>, <<66967, 66977>>, <<66979,
    66993>>, <<66995, 67001>>, <<67003, 67004>>, <<68736, 68786>>, <<68800,
    68850>>, <<71840, 71903>>, <<93760, 93823>>, <<119808, 119892>>, <<119894,
    119964>>, <<119966, 119967>>, <<119970, 119970>>, <<119973, 119974>>,
    <<119977, 119980>>, <<119982, 119993>>, <<119995, 119995>>, <<119997,
    120003>>, <<120005, 120069>>, <<120071, 120074>>, <<120077, 120084>>,
    <<120086, 120092>>, <<120094, 120121>>, <<120123, 120126>>, <<120128,
    120132>>, <<120134, 120134>>, <<120138, 120144>>, <<120146, 120485>>,
    <<120488, 120512>>, <<120514, 120538>>, <<120540, 120570>>, <<120572,
    120596>>, <<120598, 120628>>, <<120630, 120654>>, <<120656, 120686>>,
    <<120688, 120712>>, <<120714, 120744>>, <<120746, 120770>>, <<120772,
    120779>>, <<122624, 122633>>, <<122635, 122654>>, <<125184, 125251>>,
    <<127280, 127305>>, <<127312, 127337>>, <<127344, 127369>> }

\* U+03A3 GREEK CAPITAL LETTER SIGMA
capital_sigma == 931

\* U+0130 LATIN CAPITAL LETTER I WITH DOT ABOVE
capital_i_with_dot == 304

case_ignorable(c) == \E r \in CaseIgnorableRanges : r[1] <= c /\ c <= r[2]

cased(c) == \E r \in CasedRanges : r[1] <= c /\ c <= r[2]

\* str.lower() on a character other than capital sigma: "A".."Z" to
\* "a".."z", beyond ASCII by the table; one code point, or two for U+0130
\* ("i" and U+0307 COMBINING DOT ABOVE)
lower_char(c) ==
  IF c < 128
  THEN << IF 65 <= c /\ c <= 90 THEN c + 32 ELSE c >>
  ELSE IF c = capital_i_with_dot
  THEN << 105, 775 >>
  ELSE IF \E r \in LowerRanges : r[1] <= c /\ c <= r[2] /\ (c - r[1]) % r[3] = 0
  THEN << c + (CHOOSE r \in LowerRanges :
                 r[1] <= c /\ c <= r[2] /\ (c - r[1]) % r[3] = 0)[4] >>
  ELSE << c >>

\* str.lower() on the capital sigma at s[i]: the final form U+03C2 when a
\* cased character comes before it and none after it, case-ignorable
\* characters aside; else U+03C3
final_sigma(s, i) ==
  LET before == { j \in 1..(i - 1) : ~case_ignorable(s[j]) }
      after == { j \in (i + 1)..Len(s) : ~case_ignorable(s[j]) }
  IN  /\ before # {}
      /\ cased(s[CHOOSE j \in before : \A k \in before : k <= j])
      /\ \/ after = {}
         \/ ~cased(s[CHOOSE j \in after : \A k \in after : j <= k])

\* str.lower() from the i-th character of s on
RECURSIVE lower_from(_, _)
lower_from(s, i) ==
  IF i > Len(s)
  THEN << >>
  ELSE (IF s[i] = capital_sigma
        THEN << IF final_sigma(s, i) THEN 962 ELSE 963 >>
        ELSE lower_char(s[i])) \o lower_from(s, i + 1)

\* str.lower()
lower(s) == lower_from(s, 1)

\* the number of bytes of one character in a file name: os.fsencode, UTF-8
\* with surrogateescape (U+DC80..U+DCFF stand for one undecodable byte)
utf8_len_char(c) ==
  IF c < 128 THEN 1
  ELSE IF c < 2048 THEN 2
  ELSE IF 56448 <= c /\ c <= 56575 THEN 1
  ELSE IF c < 65536 THEN 3
  ELSE 4

\* the number of bytes of a file name: one for every character, one more
\* for every character of two bytes or more, and so on
utf8_len(name) ==
  Len(name)
    + Cardinality({ i \in 1..Len(name) : utf8_len_char(name[i]) >= 2 })
    + Cardinality({ i \in 1..Len(name) : utf8_len_char(name[i]) >= 3 })
    + Cardinality({ i \in 1..Len(name) : utf8_len_char(name[i]) >= 4 })

\* str(counter) for counter >= 0: the decimal digits
RECURSIVE str(_)
str(n) ==
  IF n < 10
  THEN << digit_zero + n >>
  ELSE str(n \div 10) \o << digit_zero + (n % 10) >>

\* name.startswith('.')
startswith_dot(name) == Len(name) > 0 /\ name[1] = full_stop

\* name.rfind('.'), 1-based; 0 when there is no dot
rfind_dot(name) ==
  IF \E i \in 1..Len(name) : name[i] = full_stop
  THEN CHOOSE i \in 1..Len(name) :
         /\ name[i] = full_stop
         /\ \A j \in (i + 1)..Len(name) : name[j] # full_stop
  ELSE 0

\* PurePath.suffix: the last dot and what follows it, unless that dot is the
\* first or the last character of the name
suffix(name) ==
  LET i == rfind_dot(name)
  IN  IF 1 < i /\ i < Len(name) THEN SubSeq(name, i, Len(name)) ELSE << >>

\* PurePath.stem: the name without its suffix
stem(name) ==
  LET i == rfind_dot(name)
  IN  IF 1 < i /\ i < Len(name) THEN SubSeq(name, 1, i - 1) ELSE name

(***************************************************************************)
(* self.categories and self.extension_to_category                          *)
(***************************************************************************)
Documents == <<68, 111, 99, 117, 109, 101, 110, 116, 115>>  \* "Documents"
Images == <<73, 109, 97, 103, 101, 115>>  \* "Images"
Archives == <<65, 114, 99, 104, 105, 118, 101, 115>>  \* "Archives"
Audio == <<65, 117, 100, 105, 111>>  \* "Audio"
Video == <<86, 105, 100, 101, 111>>  \* "Video"
Executables == <<69, 120, 101, 99, 117, 116, 97, 98, 108, 101, 115>>  \* "Executables"
Code == <<67, 111, 100, 101>>  \* "Code"
Spreadsheets == <<83, 112, 114, 101, 97, 100, 115, 104, 101, 101, 116, 115>>  \* "Spreadsheets"
Presentations == <<80, 114, 101, 115, 101, 110, 116, 97, 116, 105, 111, 110, 115>>  \* "Presentations"
Fonts == <<70, 111, 110, 116, 115>>  \* "Fonts"
Torrents == <<84, 111, 114, 114, 101, 110, 116, 115>>  \* "Torrents"
Others == <<79, 116, 104, 101, 114, 115>>  \* "Others"

categories ==
  <<
     [name |-> Documents,
      extensions |-> << <<46, 112, 100, 102>>,  \* ".pdf"
                       <<46, 100, 111, 99>>,  \* ".doc"
                       <<46, 100, 111, 99, 120>>,  \* ".docx"
                       <<46, 116, 120, 116>>,  \* ".txt"
                       <<46, 114, 116, 102>>,  \* ".rtf"
                       <<46, 111, 100, 116>>,  \* ".odt"
                       <<46, 120, 108, 115>>,  \* ".xls"
                       <<46, 120, 108, 115, 120>>,  \* ".xlsx"
                       <<46, 112, 112, 116>>,  \* ".ppt"
                       <<46, 112, 112, 116, 120>> >>],  \* ".pptx"
     [name |-> Images,
      extensions |-> << <<46, 106, 112, 103>>,  \* ".jpg"
                       <<46, 106, 112, 101, 103>>,  \* ".jpeg"
                       <<46, 112, 110, 103>>,  \* ".png"
                       <<46, 103, 105, 102>>,  \* ".gif"
                       <<46, 98, 109, 112>>,  \* ".bmp"
                       <<46, 115, 118, 103>>,  \* ".svg"
                       <<46, 119, 101, 98, 112>>,  \* ".webp"
                       <<46, 116, 105, 102, 102>>,  \* ".tiff"
                       <<46, 105, 99, 111>> >>],  \* ".ico"
     [name |-> Archives,
      extensions |-> << <<46, 122, 105, 112>>,  \* ".zip"
                       <<46, 114, 97, 114>>,  \* ".rar"
                       <<46, 55, 122>>,  \* ".7z"
                       <<46, 116, 97, 114>>,  \* ".tar"
                       <<46, 103, 122>>,  \* ".gz"
                       <<46, 98, 122, 50>> >>],  \* ".bz2"
     [name |-> Audio,
      extensions |-> << <<46, 109, 112, 51>>,  \* ".mp3"
                       <<46, 119, 97, 118>>,  \* ".wav"
                       <<46, 102, 108, 97, 99>>,  \* ".flac"
                       <<46, 97, 97, 99>>,  \* ".aac"
                       <<46, 111, 103, 103>>,  \* ".ogg"
                       <<46, 109, 52, 97>> >>],  \* ".m4a"
     [name |-> Video,
      extensions |-> << <<46, 109, 112, 52>>,  \* ".mp4"
                       <<46, 97, 118, 105>>,  \* ".avi"
                       <<46, 109, 107, 118>>,  \* ".mkv"
                       <<46, 109, 111, 118>>,  \* ".mov"
                       <<46, 119, 109, 118>>,  \* ".wmv"
                       <<46, 102, 108, 118>>,  \* ".flv"
                       <<46, 119, 101, 98, 109>> >>],  \* ".webm"
     [name |-> Executables,
      extensions |-> << <<46, 101, 120, 101>>,  \* ".exe"
                       <<46, 109, 115, 105>>,  \* ".msi"
                       <<46, 100, 109, 103>>,  \* ".dmg"
                       <<46, 112, 107, 103>>,  \* ".pkg"
                       <<46, 100, 101, 98>>,  \* ".deb"
                       <<46, 114, 112, 109>> >>],  \* ".rpm"
     [name |-> Code,
      extensions |-> << <<46, 112, 121>>,  \* ".py"
                       <<46, 106, 115>>,  \* ".js"
                       <<46, 104, 116, 109, 108>>,  \* ".html"
                       <<46, 99, 115, 115>>,  \* ".css"
                       <<46, 106, 97, 118, 97>>,  \* ".java"
                       <<46, 99, 112, 112>>,  \* ".cpp"
                       <<46, 99>>,  \* ".c"
                       <<46, 112, 104, 112>>,  \* ".php"
                       <<46, 114, 98>>,  \* ".rb"
                       <<46, 106, 115, 111, 110>>,  \* ".json"
                       <<46, 120, 109, 108>> >>],  \* ".xml"
     [name |-> Spreadsheets,
      extensions |-> << <<46, 99, 115, 118>>,  \* ".csv"
                       <<46, 120, 108, 115>>,  \* ".xls"
                       <<46, 120, 108, 115, 120>>,  \* ".xlsx"
                       <<46, 111, 100, 115>> >>],  \* ".ods"
     [name |-> Presentations,
      extensions |-> << <<46, 112, 112, 116>>,  \* ".ppt"
                       <<46, 112, 112, 116, 120>>,  \* ".pptx"
                       <<46, 111, 100, 112>> >>],  \* ".odp"
     [name |-> Fonts,
      extensions |-> << <<46, 116, 116, 102>>,  \* ".ttf"
                       <<46, 111, 116, 102>>,  \* ".otf"
                       <<46, 119, 111, 102, 102>>,  \* ".woff"
                       <<46, 119, 111, 102, 102, 50>> >>],  \* ".woff2"
     [name |-> Torrents,
      extensions |-> << <<46, 116, 111, 114, 114, 101, 110, 116>> >>],  \* ".torrent"
     [name |-> Others,
      extensions |-> <<  >>]
  >>

\* index_category keeping the first category that listed an extension
index_category_first_wins(index, category) ==
  [e \in DOMAIN index \cup Range(category.extensions) |->
     IF e \in DOMAIN index THEN index[e] ELSE category.name]

\* one pass of "for ext in extensions: self.extension_to_category[ext] = category"
index_category(index, category) ==
  [e \in DOMAIN index \cup Range(category.extensions) |->
     IF e \in Range(category.extensions) THEN category.name ELSE index[e]]

\* "for category, extensions in self.categories.items()", from the k-th on
RECURSIVE build_index(_, _)
build_index(index, k) ==
  IF k > Len(categories)
  THEN index
  ELSE build_index(index_category(index, categories[k]), k + 1)

\* self.extension_to_category after __init__
extension_to_category == build_index(<< >>, 1)

\* get_file_category: extension_to_category.get(file_extension.lower(), "Others")
get_file_category(file_extension) ==
  LET e == lower(file_extension)
  IN  IF e \in DOMAIN extension_to_category
      THEN extension_to_category[e]
      ELSE Others

(***************************************************************************)
(* The filesystem                                                          *)
(***************************************************************************)
\* the most bytes the name of a directory entry may have (NAME_MAX of the
\* filesystem); a lookup of a longer name in a directory fails with
\* ENAMETOOLONG
NAME_MAX == 255

DirNode == [kind |-> "dir", content |-> << >>]

FileNode(content) == [kind |-> "file", content |-> content]

parent(p) == SubSeq(p, 1, Len(p) - 1)

basename(p) == p[Len(p)]

\* Path.is_dir() on a path whose names are within NAME_MAX; Path.is_file()
\* likewise
is_file(f, p) == p \in DOMAIN f /\ f[p].kind = "file"

\* Path.is_dir() on a path whose names are within NAME_MAX
is_dir(f, p) == p \in DOMAIN f /\ f[p].kind = "dir"

\* the lookup of p fails with ENAMETOOLONG: its last name has too many bytes
\* for the directory it is looked up in (below a regular file or a missing
\* directory the lookup fails with ENOTDIR or ENOENT before the name is
\* looked at)
name_too_long(f, p) ==
  /\ p # << >>
  /\ is_dir(f, parent(p))
  /\ utf8_len(basename(p)) > NAME_MAX

\* Path.exists(): FALSE for a missing path and for a path below a regular
\* file (ENOENT, ENOTDIR); any other error of the lookup is raised
exists(f, p) == [value |-> p \in DOMAIN f, raised |-> name_too_long(f, p)]

\* Path.iterdir() on p: the names of its direct children
iterdir(f, p) == { basename(q) : q \in { r \in DOMAIN f : Len(r) = Len(p) + 1 /\ parent(r) = p } }

\* Path.mkdir(exist_ok=True): needs the parent to be a directory
mkdir(f, p) ==
  IF is_dir(f, p)
  THEN [fs |-> f, raised |-> FALSE]
  ELSE IF p \in DOMAIN f \/ ~is_dir(f, parent(p)) \/ name_too_long(f, p)
  THEN [fs |-> f, raised |-> TRUE]
  ELSE [fs |-> [q \in DOMAIN f \cup {p} |-> IF q = p THEN DirNode ELSE f[q]],
        raised |-> FALSE]

\* os.rename of a regular file: the destination's parent must be a directory
\* and its name within NAME_MAX; a regular file at the destination is replaced
rename(f, src, dst) ==
  IF ~is_dir(f, parent(dst)) \/ is_dir(f, dst) \/ name_too_long(f, dst)
  THEN [fs |-> f, raised |-> TRUE]
  ELSE [fs |-> [q \in (DOMAIN f \ {src}) \cup {dst} |-> IF q = dst THEN f[src] ELSE f[q]],
        raised |-> FALSE]

\* shutil.move(src, dst) of a regular file: into dst when dst is a directory
\* (an error when the name is taken there), else a rename; when the rename
\* fails for its destination, so does the copy fallback
shutil_move(f, src, dst) ==
  IF is_dir(f, dst)
  THEN IF (dst \o << basename(src) >>) \in DOMAIN f
       THEN [fs |-> f, raised |-> TRUE]
       ELSE rename(f, src, dst \o << basename(src) >>)
  ELSE rename(f, src, dst)

\* the category loop of create_category_folders, from the k-th category on
RECURSIVE create_from(_, _)
create_from(f, k) ==
  IF k > Len(categories)
  THEN [fs |-> f, raised |-> FALSE]
  ELSE IF exists(f, << categories[k].name >>).raised
  THEN [fs |-> f, raised |-> TRUE]
  ELSE IF exists(f, << categories[k].name >>).value
  THEN create_from(f, k + 1)
  ELSE LET r == mkdir(f, << categories[k].name >>)
       IN  IF r.raised THEN r ELSE create_from(r.fs, k + 1)

\* create_category_folders
create_category_folders(f) == create_from(f, 1)

\* list_files_by_category, from the k-th category on: the regular files
\* directly in the category folders that are directories
RECURSIVE count_from(_, _)
count_from(f, k) ==
  IF k > Len(categories)
  THEN 0
  ELSE (IF is_dir(f, << categories[k].name >>)
        THEN Cardinality({ n \in iterdir(f, << categories[k].name >>) :
                             is_file(f, << categories[k].name, n >>) })
        ELSE 0) + count_from(f, k + 1)

\* list_files_by_category: the file_count it prints, or "not_found"
list_files_by_category(f) ==
  IF ~exists(f, << >>).value
  THEN [found |-> FALSE, file_count |-> 0]
  ELSE [found |-> TRUE, file_count |-> count_from(f, 1)]

\* f"{stem}_{counter}{suffix}" under original_dest_path.parent
numbered(original_dest_path, counter) ==
  parent(original_dest_path) \o
    << stem(basename(original_dest_path)) \o << low_line >> \o str(counter)  \* "_"
         \o suffix(basename(original_dest_path)) >>

\* "while dest_path.exists()": the dest_path and counter it exits with, or
\* raised when dest_path.exists() raises
RECURSIVE while_exists(_, _, _, _)
while_exists(f, dest_path, original_dest_path, counter) ==
  IF exists(f, dest_path).raised
  THEN [dest_path |-> dest_path, counter |-> counter, raised |-> TRUE]
  ELSE IF exists(f, dest_path).value
  THEN while_exists(f, numbered(original_dest_path, counter),
                    original_dest_path, counter + 1)
  ELSE [dest_path |-> dest_path, counter |-> counter, raised |-> FALSE]

\* the conflict handling of organize_files for one destination
resolve_conflict(f, dest_path) == while_exists(f, dest_path, dest_path, 1)

Decision(item, action, category, dest_path) ==
  [item |-> item, action |-> action, category |-> category, dest_path |-> dest_path]

NoDecision == Decision(<< >>, "none", << >>, << >>)

\* excluded without the hidden-file test
excluded_directories_only(f, name) == is_dir(f, << name >>)

\* "if item.is_dir() or item.name.startswith('.')"
excluded(f, name) == is_dir(f, << name >>) \/ startswith_dot(name)

\* "if item.parent.name == category"
already_placed(parent_name, category) == parent_name = category

\* "file_extension = item.suffix.lower()" and
\* "category = self.get_file_category(file_extension)"
category_of(name) == get_file_category(lower(suffix(name)))

\* do_move without the dry_run test
do_move_ignoring_dry_run(st, name, category, dest_path, dry_run) ==
  LET mv == shutil_move(st.fs, << name >>, dest_path)
  IN  IF ~mv.raised
      THEN [st EXCEPT !.fs = mv.fs,
                      !.files_moved = @ + 1,
                      !.attempts = @ + 1,
                      !.decision = Decision(name, "moved", category, dest_path)]
      ELSE [st EXCEPT !.files_skipped = @ + 1,
                      !.attempts = @ + 1,
                      !.decision = Decision(name, "error", category, dest_path)]

\* "if dry_run: ... else: try: shutil.move(...) except Exception: ..." for the
\* entry `name` and the destination dest_path
do_move(st, name, category, dest_path, dry_run) ==
  LET mv == shutil_move(st.fs, << name >>, dest_path)
  IN  IF dry_run
      THEN [st EXCEPT !.decision = Decision(name, "would_move", category, dest_path)]
      ELSE IF ~mv.raised
      THEN [st EXCEPT !.fs = mv.fs,
                      !.files_moved = @ + 1,
                      !.attempts = @ + 1,
                      !.decision = Decision(name, "moved", category, dest_path)]
      ELSE [st EXCEPT !.files_skipped = @ + 1,
                      !.attempts = @ + 1,
                      !.decision = Decision(name, "error", category, dest_path)]

\* one iteration of the for loop of organize_files on the entry `name`; st
\* holds the filesystem, the local counters and whether the call has raised.
\* dest_path.exists() is outside the try: when it raises, so does the call
process_item(st, parent_name, name, dry_run) ==
  IF excluded(st.fs, name)
  THEN st
  ELSE LET category == category_of(name)
           resolved == resolve_conflict(st.fs, << category, name >>)
       IN  IF already_placed(parent_name, category)
           THEN [st EXCEPT !.decision = Decision(name, "same_folder", category, << >>)]
           ELSE IF resolved.raised
           THEN [st EXCEPT !.raised = TRUE]
           ELSE do_move(st, name, category, resolved.dest_path, dry_run)

\* the for loop over the listing `order`, up to its end or to the iteration
\* that raises
RECURSIVE process_all(_, _, _, _)
process_all(st, parent_name, order, dry_run) ==
  IF order = << >> \/ st.raised
  THEN st
  ELSE process_all(process_item(st, parent_name, Head(order), dry_run),
                   parent_name, Tail(order), dry_run)

(***************************************************************************)
(* Bounds and initial filesystems                                          *)
(***************************************************************************)
\* at most this many regular files directly in downloads_path
MaxRootFiles == 2

\* at most this many calls of organize_files and create_category_folders in
\* a row
MaxCalls == 2

report_pdf == <<114, 101, 112, 111, 114, 116, 46, 112, 100, 102>>  \* "report.pdf"

report_1_pdf == <<114, 101, 112, 111, 114, 116, 95, 49, 46, 112, 100, 102>>  \* "report_1.pdf"

dot_env == <<46, 101, 110, 118>>  \* ".env"

stuff == <<115, 116, 117, 102, 102>>  \* "stuff"

downloads == <<100, 111, 119, 110, 108, 111, 97, 100, 115>>  \* "downloads"

ext_xyz == <<46, 120, 121, 122>>  \* ".xyz"

ext_PdF == <<46, 80, 100, 70>>  \* ".PdF"

ext_pdfx == <<46, 112, 100, 102, 120>>  \* ".pdfx"

ext_nodot_pdf == <<112, 100, 102>>  \* "pdf"

ext_xlsx == <<46, 120, 108, 115, 120>>  \* ".xlsx"

ext_xls == <<46, 120, 108, 115>>  \* ".xls"

ext_pdf == <<46, 112, 100, 102>>  \* ".pdf"

ext_XLS == <<46, 88, 76, 83>>  \* ".XLS"

ext_mKv == << 46, 109, 8490, 118 >>  \* ".m" U+212A KELVIN SIGN "v"

ext_I_dot == << 46, 304 >>  \* "." U+0130

ext_sigmas == << 46, 945, 931, 931 >>  \* "." U+03B1 U+03A3 U+03A3

ext_mkv == << 46, 109, 107, 118 >>  \* ".mkv"

\* a name one byte short of NAME_MAX and half as many characters: 125 times
\* U+00E9 (two bytes each), then ".XLS"
long_XLS == [i \in 1..((NAME_MAX - 1 - Len(ext_XLS)) \div 2) |-> 233] \o ext_XLS

\* names downloads_path itself may have
RootNames == { downloads, Documents }

\* names of the regular non-hidden files that may lie directly in
\* downloads_path
RootFilePool ==
  { report_pdf, report_1_pdf, long_XLS, Documents, Others }

\* a directory and a hidden file that may already lie in downloads_path,
\* both or neither ...
PreDirPool == { << stuff >> }

HiddenPool == { << dot_env >> }

\* ... and regular files that may already lie in a category folder
PreFilePool ==
  { << Documents, report_pdf >>, << Spreadsheets, long_XLS >> }

\* the tree of an existing root with the directories D and the regular files F
Tree(D, F) ==
  [p \in {<< >>} \cup D \cup F |->
     IF p \in F THEN FileNode(p) ELSE DirNode]

\* R are the root's regular non-hidden files, F the regular files in
\* category folders: at most MaxRootFiles in the root, and none where a
\* folder is
WellFormed(R, F) ==
  /\ \A p \in F : parent(p) \notin R
  /\ Cardinality(R) <= MaxRootFiles

InitialTrees ==
  { Tree(t[1][1] \cup { parent(p) : p \in t[3] }, t[1][2] \cup t[2] \cup t[3]) :
      t \in { u \in { << {}, {} >>, << PreDirPool, HiddenPool >> }
                      \X (SUBSET { << n >> : n \in RootFilePool })
                      \X (SUBSET PreFilePool) :
                WellFormed(u[2], u[3]) } }

\* downloads_path does not exist
MissingRoot == << >>

\* downloads_path is a regular file
RootIsFile == [p \in {<< >>} |-> FileNode(<< >>)]

\* every extension of the table
TableExtensions == UNION { Range(categories[k].extensions) : k \in 1..Len(categories) }

\* e with its letters a-z as capitals
ascii_upper(e) ==
  [i \in 1..Len(e) |-> IF 97 <= e[i] /\ e[i] <= 122 THEN e[i] - 32 ELSE e[i]]

\* arguments get_file_category is queried with
ExtInputs ==
  TableExtensions \cup { ascii_upper(e) : e \in TableExtensions }
    \cup { << >>, ext_xyz, ext_PdF, ext_pdfx, ext_nodot_pdf, ext_mKv, ext_I_dot,
            ext_sigmas }

\* every order of the elements of S
Orders(S) ==
  { o \in [1..Cardinality(S) -> S] : \A i, j \in 1..Cardinality(S) : o[i] = o[j] => i = j }

\* the names of a listing the loop takes past its first test
ProcessedNames(f, names) == { n \in names : ~excluded(f, n) }

(***************************************************************************)
(* The state machine                                                       *)
(***************************************************************************)
\* a call organize_files(dry_run)
organize_files_call(dry) == [method |-> "organize_files", dry_run |-> dry]

\* a call create_category_folders()
create_category_folders_call == [method |-> "create_category_folders"]

\* the dry_run argument of the current organize_files call
dry_run == calls[Len(calls)].dry_run

Init ==
  /\ fs \in InitialTrees \cup { MissingRoot, RootIsFile }
  /\ rootName \in RootNames
  /\ calls = << >>
  /\ pc = "idle"
  /\ listing = {}
  /\ todo = {}
  /\ files_moved = 0
  /\ files_skipped = 0
  /\ attempts = 0
  /\ outcome = "none"
  /\ decision = NoDecision
  /\ fs0 = fs
  /\ qExt = << >>
  /\ qCat = << >>
  /\ file_count = 0

\* the start of a call of organize_files or create_category_folders: the
\* locals of organize_files are fresh
Enter(call) ==
  /\ pc \in { "idle", "returned" }
  /\ Len(calls) < MaxCalls
  /\ calls' = Append(calls, call)
  /\ file_count' = 0
  /\ fs0' = fs
  /\ files_moved' = 0
  /\ files_skipped' = 0
  /\ attempts' = 0
  /\ decision' = NoDecision
  /\ UNCHANGED << rootName, qExt, qCat >>

\* organize_files: "if not self.downloads_path.exists()": log the error, return
OrganizeNotFound ==
  \E dry \in BOOLEAN :
    /\ Enter(organize_files_call(dry))
    /\ ~exists(fs, << >>).value
    /\ outcome' = "not_found"
    /\ pc' = "returned"
    /\ listing' = {}
    /\ todo' = {}
    /\ UNCHANGED fs

\* organize_files: create_category_folders raises, and so does organize_files
OrganizeRaises ==
  \E dry \in BOOLEAN :
    /\ Enter(organize_files_call(dry))
    /\ exists(fs, << >>).value
    /\ create_category_folders(fs).raised
    /\ fs' = create_category_folders(fs).fs
    /\ outcome' = "raised"
    /\ pc' = "returned"
    /\ listing' = {}
    /\ todo' = {}

\* organize_files: create_category_folders, then the iterdir() listing
OrganizeBegin ==
  \E dry \in BOOLEAN :
    /\ Enter(organize_files_call(dry))
    /\ exists(fs, << >>).value
    /\ ~create_category_folders(fs).raised
    /\ fs' = create_category_folders(fs).fs
    /\ outcome' = "none"
    /\ pc' = "loop"
    /\ listing' = iterdir(fs', << >>)
    /\ todo' = ProcessedNames(fs', listing')

LoopState == [fs |-> fs, files_moved |-> files_moved, files_skipped |-> files_skipped,
              attempts |-> attempts, decision |-> decision, raised |-> FALSE]

\* one iteration of the for loop on an entry that passes the first test.
\* The directory gives its entries in any order, so any entry still to come
\* may be the next; when the iteration raises, organize_files ends there,
\* without the summary
Visit ==
  /\ pc = "loop"
  /\ \E name \in todo :
       LET st == process_item(LoopState, rootName, name, dry_run)
       IN  /\ fs' = st.fs
           /\ files_moved' = st.files_moved
           /\ files_skipped' = st.files_skipped
           /\ attempts' = st.attempts
           /\ decision' = st.decision
           /\ pc' = IF st.raised THEN "returned" ELSE "loop"
           /\ outcome' = IF st.raised THEN "raised" ELSE outcome
           /\ todo' = todo \ { name }
  /\ UNCHANGED << rootName, calls, listing, fs0, qExt, qCat, file_count >>

\* one iteration of the for loop on a directory or a hidden entry of the
\* listing, wherever the directory gives it: "continue", and nothing changes
Skip ==
  /\ pc = "loop"
  /\ \E name \in listing \ todo : excluded(fs, name)
  /\ UNCHANGED vars

\* the loop is over, every entry taken: the summary line, and
\* organize_files returns
Finish ==
  /\ pc = "loop"
  /\ todo = {}
  /\ outcome' = "summary"
  /\ pc' = "returned"
  /\ UNCHANGED << fs, rootName, calls, listing, todo, files_moved,
                  files_skipped, attempts, decision, fs0, qExt, qCat, file_count >>

\* a call of create_category_folders on its own; when a mkdir raises, the
\* folders made before it stay
CreateCategoryFolders ==
  /\ Enter(create_category_folders_call)
  /\ fs' = create_category_folders(fs).fs
  /\ outcome' = IF create_category_folders(fs).raised THEN "raised" ELSE "created"
  /\ pc' = "returned"
  /\ listing' = {}
  /\ todo' = {}

\* a call of list_files_by_category, between two other calls: it changes
\* nothing but its own file_count
ListFilesByCategory ==
  /\ pc \in { "idle", "returned" }
  /\ file_count' = list_files_by_category(fs).file_count
  /\ UNCHANGED << fs, rootName, calls, pc, listing, todo, files_moved,
                  files_skipped, attempts, outcome, decision, fs0, qExt, qCat >>

Next ==
  \/ OrganizeNotFound
  \/ OrganizeRaises
  \/ OrganizeBegin
  \/ Visit
  \/ Skip
  \/ Finish
  \/ CreateCategoryFolders
  \/ ListFilesByCategory

Spec == Init /\ [][Next]_vars

(***************************************************************************)
(* get_file_category on its own                                            *)
(***************************************************************************)
InitClassify ==
  /\ fs = MissingRoot
  /\ rootName = downloads
  /\ calls = << >>
  /\ pc = "idle"
  /\ listing = {}
  /\ todo = {}
  /\ files_moved = 0
  /\ files_skipped = 0
  /\ attempts = 0
  /\ outcome = "none"
  /\ decision = NoDecision
  /\ fs0 = fs
  /\ qExt \in ExtInputs
  /\ qCat = << >>
  /\ file_count = 0

\* a call get_file_category(qExt)
Classify ==
  /\ qCat = << >>
  /\ qCat' = get_file_category(qExt)
  /\ UNCHANGED << fs, rootName, calls, pc, listing, todo, files_moved,
                  files_skipped, attempts, outcome, decision, fs0, qExt, file_count >>

NextClassify == Classify

SpecClassify == InitClassify /\ [][NextClassify]_vars

(***************************************************************************)
(* Properties                                                              *)
(***************************************************************************)
CategoryNames == { categories[k].name : k \in 1..Len(categories) }

\* the category later in table order among those listing e, "Others" if none
owner(e) ==
  LET listed == { k \in 1..Len(categories) : e \in Range(categories[k].extensions) }
  IN  IF listed = {}
      THEN Others
      ELSE categories[CHOOSE k \in listed : \A j \in listed : j <= k].name

\* C1: get_file_category answers every extension: the category listing its
\* lowercased form, the later one in table order when two list it (".xls" is
\* "Spreadsheets"), and "Others" when no category lists it.
C1_ClassifierTotal ==
  qCat # << >> =>
    /\ qCat = owner(lower(qExt))
    /\ lower(qExt) \in { ext_xls, ext_xlsx } => qCat = Spreadsheets
    /\ lower(qExt) = ext_pdf => qCat = Documents
    /\ lower(qExt) = ext_mkv => qCat = Video
    /\ lower(qExt) \notin TableExtensions => qCat = Others

\* an upper-case duplicate extension has been classified
C1_Witness == qExt = ext_XLS /\ qCat = Spreadsheets

\* an entry lies at p
Present(f, p) == p \in DOMAIN f

\* the current call is organize_files
OrganizeRun == calls # << >> /\ calls[Len(calls)].method = "organize_files"

\* the current call is a real (not simulated) run
RealRun == OrganizeRun /\ ~dry_run

\* the current call is a simulated run
DryRun == OrganizeRun /\ dry_run

\* the step visits `name` and takes it past both skip tests of the loop
Processes(name) ==
  /\ pc = "loop"
  /\ name \in todo
  /\ todo' = todo \ { name }
  /\ ~excluded(fs, name)
  /\ ~already_placed(rootName, category_of(name))

\* C2: in a real run, when an entry already lies at root/<category>/<name> as
\* the root file <name> is processed, the file goes to
\* root/<category>/<stem>_<k><ext> for the least k >= 1 whose path is unused
\* (report_1.pdf when only report.pdf is there), every other entry (so every
\* entry under a category folder) stays as it was, and files_moved rises by 1.
C2_CollisionSafety ==
  [][ \A name \in listing :
        ( /\ Processes(name)
          /\ RealRun
          /\ Present(fs, << category_of(name), name >>) )
        =>
        /\ \E k \in 1..Cardinality(DOMAIN fs) :
             LET taken(j) == numbered(<< category_of(name), name >>, j)
             IN  /\ \A j \in 1..(k - 1) : Present(fs, taken(j))
                 /\ ~Present(fs, taken(k))
                 /\ DOMAIN fs' = (DOMAIN fs \ { << name >> }) \cup { taken(k) }
                 /\ fs'[taken(k)] = fs[<< name >>]
        /\ \A p \in DOMAIN fs \ { << name >> } : p \in DOMAIN fs' /\ fs'[p] = fs[p]
        /\ ( /\ name = report_pdf
             /\ ~Present(fs, << Documents, report_1_pdf >>) )
           => /\ Present(fs', << Documents, report_1_pdf >>)
              /\ fs'[<< Documents, report_1_pdf >>] = fs[<< report_pdf >>]
        /\ files_moved' = files_moved + 1
        /\ files_skipped' = files_skipped
    ]_vars

\* the last two calls were both real runs and the second has returned
SecondRealRunReturned ==
  /\ pc = "returned"
  /\ Len(calls) >= 2
  /\ calls[Len(calls)] = organize_files_call(FALSE)
  /\ calls[Len(calls) - 1] = organize_files_call(FALSE)

\* C3: a real run directly after a real run moves nothing and leaves the
\* filesystem as the first run left it, whatever the root held at first.
C3_Idempotence ==
  SecondRealRunReturned => files_moved = 0 /\ fs = fs0

\* the category folders directly under the root that g has and f lacks
NewCategoryFolders(f, g) ==
  { p \in DOMAIN g \ DOMAIN f : Len(p) = 1 /\ p[1] \in CategoryNames /\ g[p] = DirNode }

\* C4 as stated: a simulated run leaves the set of files, the set of folders
\* and every file's location as they were, and both counters at 0.
C4_DryRunNoMutation ==
  DryRun =>
    /\ fs = fs0
    /\ files_moved = 0
    /\ files_skipped = 0

\* C4, amended: a simulated run moves, removes and overwrites nothing and
\* keeps both counters at 0; the only entries it adds are category folders
\* directly under the root.
C4_DryRunMovesNothing ==
  DryRun =>
    /\ \A p \in DOMAIN fs0 : p \in DOMAIN fs /\ fs[p] = fs0[p]
    /\ DOMAIN fs \ DOMAIN fs0 = NewCategoryFolders(fs0, fs)
    /\ files_moved = 0
    /\ files_skipped = 0
    /\ attempts = 0

\* a simulated run reported a move with a renamed destination and returned
C4_Witness ==
  /\ pc = "returned"
  /\ DryRun
  /\ decision = Decision(report_pdf, "would_move", Documents, << Documents, report_1_pdf >>)
  /\ Present(fs, << report_pdf >>)

\* C5: when the root is missing or is not a directory, organize_files
\* reports not-found and leaves the filesystem unchanged.
C5_RootNotADirectory ==
  (pc = "returned" /\ OrganizeRun /\ ~is_dir(fs0, << >>)) =>
    /\ outcome = "not_found"
    /\ fs = fs0

\* the non-hidden regular files directly in the root of f
RootFiles(f) == { n \in iterdir(f, << >>) : ~excluded(f, n) }

\* no root file's name is taken in its category folder
NoNameTaken(f) == \A n \in RootFiles(f) : ~Present(f, << category_of(n), n >>)

\* C6: after a real run in which no move failed, on a root (whatever its
\* name) none of whose files meets a taken name, every non-hidden regular
\* file F of the root is at root/<category of F>/<name of F>, none is left
\* in the root, files_moved is their number and files_skipped is 0.
C6_EndToEnd ==
  ( /\ pc = "returned"
    /\ outcome = "summary"
    /\ RealRun
    /\ files_skipped = 0
    /\ NoNameTaken(fs0) )
  =>
    /\ \A n \in RootFiles(fs0) :
         /\ Present(fs, << category_of(n), n >>)
         /\ fs[<< category_of(n), n >>] = fs0[<< n >>]
         /\ ~Present(fs, << n >>)
    /\ RootFiles(fs) = {}
    /\ files_moved = Cardinality(RootFiles(fs0))

\* C7: when a move fails, files_skipped rises by 1, files_moved and the
\* filesystem stay as they are (the file stays where it was), the loop goes
\* on with the entries still to visit; a call in which a move failed returns
\* only through the summary, with every entry visited, and
\* files_moved + files_skipped is the number of move attempts.
C7_FailureIsolation ==
  /\ [][ \A name \in listing :
           ( /\ Processes(name)
             /\ RealRun
             /\ decision' = Decision(name, "error", category_of(name), decision'.dest_path) )
           =>
           /\ files_skipped' = files_skipped + 1
           /\ files_moved' = files_moved
           /\ fs' = fs
           /\ Present(fs', << name >>)
           /\ pc' = "loop"
       ]_vars
  /\ [](files_moved + files_skipped = attempts)
  /\ []((pc = "returned" /\ RealRun /\ files_skipped > 0)
          => (outcome = "summary" /\ todo = {}))

\* the tree the loop of the current call started on
LoopStart == create_category_folders(fs0).fs

\* the listing's entries the loop does not skip in its first test
Visited == ProcessedNames(LoopStart, iterdir(LoopStart, << >>))

\* what the loop of the current call yields when it visits the listing's
\* regular non-hidden entries in the order o (the entries it skips change
\* nothing, wherever they come)
LoopResult(o) ==
  process_all([fs |-> LoopStart, files_moved |-> 0, files_skipped |-> 0,
               attempts |-> 0, decision |-> NoDecision, raised |-> FALSE],
              rootName,
              o,
              FALSE)

\* C8: every order of the listing gives the same final filesystem (each file
\* at the same path under the same name) and the same moved and skipped
\* counts.
C8_OrderIndependent ==
  (pc = "returned" /\ RealRun /\ outcome # "not_found" /\ is_dir(fs0, << >>)) =>
    \A o \in Orders(Visited) :
      /\ LoopResult(o).fs = fs
      /\ LoopResult(o).files_moved = files_moved
      /\ LoopResult(o).files_skipped = files_skipped

\* a directory, or a name starting with '.'
DirectoryOrHidden(f, n) == is_dir(f, << n >>) \/ n[1] = 46  \* "."

\* the entries of f at or below the root child n
Below(f, n) == { p \in DOMAIN f : Len(p) >= 1 /\ p[1] = n }

\* C9: during and after any call, simulated or not, every direct child of
\* the root that is a directory or whose name starts with '.' is where it was
\* with what it held (a directory that is no category folder holds nothing
\* else), and the counters count only entries that are neither.
C9_ExcludedUntouched ==
  OrganizeRun =>
    /\ \A n \in iterdir(fs0, << >>) :
         DirectoryOrHidden(fs0, n) =>
           /\ \A p \in Below(fs0, n) : p \in DOMAIN fs /\ fs[p] = fs0[p]
           /\ n \notin CategoryNames => Below(fs, n) = Below(fs0, n)
    /\ files_moved + files_skipped
         <= Cardinality({ n \in listing \ todo : ~DirectoryOrHidden(fs, n) })

\* a real run returned with a hidden file and a plain directory in the
\* root and a file moved past them
C9_Witness ==
  /\ pc = "returned"
  /\ outcome = "summary"
  /\ RealRun
  /\ files_moved >= 1
  /\ Present(fs0, << dot_env >>)
  /\ Present(fs, << dot_env >>)
  /\ is_dir(fs0, << stuff >>)
  /\ is_dir(fs0, << Documents >>)

\* C10: once create_category_folders has returned, and at every move attempt
\* of the same call, every category's folder exists as a directory; calling
\* create_category_folders again creates nothing.
C10_FoldersExist ==
  pc = "loop" =>
    /\ \A c \in CategoryNames : is_dir(fs, << c >>)
    /\ create_category_folders(fs).fs = fs

====
